---- MODULE Spec2Model ----
(***************************************************************************)
(* Kruskal's and Prim's minimum-spanning-tree algorithms with their        *)
(* supporting DisjointSet (union-find) and PriorityQueue (binary min-heap).*)
(* A caller builds a Graph with buildAdjList and runs kruskalMST and then  *)
(* primMST on it; each loop iteration of either algorithm is one step.     *)
(***************************************************************************)
EXTENDS Integers, Sequences, FiniteSets, TLC

\* ------------------------------------------------------------------ bounds
NumVertices == 4      \* largest |vertices| of a generated graph
MaxEdges == 3         \* largest |edges| of a generated graph
MaxWeight == 2        \* weights are drawn from 1..MaxWeight
MalformedVertices == 2 \* largest |vertices| of a graph with absent endpoints
MaxQueue == 5         \* most enqueue calls made on one PriorityQueue
MaxPriority == 3      \* priorities are drawn from 1..MaxPriority

VARIABLES
    g,              \* the input Graph {vertices, edges, adjList}
    pc,             \* the caller's position
    parent,         \* DisjointSet.parent  (VertexId -> VertexId)
    rank,           \* DisjointSet.rank    (VertexId -> number)
    edgesSorted,    \* kruskalMST: sorted copy of g.edges
    i,              \* kruskalMST: loop index (0-based)
    result,         \* kruskalMST: accepted edges
    kruskalStatus,  \* "idle" | "running" | "returned" | "threw"
    visited,        \* primMST: boolean array indexed by vertex index
    heap_array,     \* PriorityQueue.heap_array
    mst,            \* primMST: accepted edges
    primStatus,     \* "idle" | "running" | "returned" | "threw"
    last,           \* a caller of DisjointSet / PriorityQueue: its last call
    sets,           \* ... the partition its union calls have asked for
    enqueued,       \* ... the items it has passed to enqueue, in order
    dequeued        \* ... the items dequeue has returned to it, in order

vars == <<g, pc, parent, rank, edgesSorted, i, result, kruskalStatus,
          visited, heap_array, mst, primStatus, last, sets, enqueued, dequeued>>

kruskalVars == <<parent, rank, edgesSorted, i, result, kruskalStatus>>
primVars == <<visited, heap_array, mst, primStatus>>
callerVars == <<last, sets, enqueued, dequeued>>

\* ------------------------------------------------------------ graph input
\* Array.from({ length: n }, (_, i) => i)
Vertices(n) == [k \in 1..n |-> k - 1]

Range(s) == {s[k] : k \in 1..Len(s)}

RECURSIVE pushAdj(_, _)
\* the second loop of buildAdjList: adjList.get(u)?.push(..) for both ends
pushAdj(adj, edges) ==
    IF edges = <<>> THEN adj
    ELSE LET edge == Head(edges)
             a1 == IF edge.u \in DOMAIN adj
                   THEN [adj EXCEPT ![edge.u] =
                            Append(@, [to |-> edge.v, weight |-> edge.weight])]
                   ELSE adj
             a2 == IF edge.v \in DOMAIN a1
                   THEN [a1 EXCEPT ![edge.v] =
                            Append(@, [to |-> edge.u, weight |-> edge.weight])]
                   ELSE a1
         IN pushAdj(a2, Tail(edges))

buildAdjList(vertices, edges) ==
    pushAdj([v \in Range(vertices) |-> <<>>], edges)

MakeGraph(vertices, edges) ==
    [vertices |-> vertices, edges |-> edges,
     adjList |-> buildAdjList(vertices, edges)]

EdgesOver(ids, weights) == [u : ids, v : ids, weight : weights]

\* ------------------------------------------------------------ DisjointSet
\* constructor: every vertex its own parent, rank 0
DisjointSetParent(vertices) == [v \in Range(vertices) |-> v]
DisjointSetRank(vertices) == [v \in Range(vertices) |-> 0]

RECURSIVE findSet_noCompression(_, _)
\* findSet that walks to the root and writes nothing
findSet_noCompression(p, x) ==
    IF x \notin DOMAIN p
    THEN [threw |-> TRUE, root |-> x, parent |-> p]
    ELSE IF p[x] = x
    THEN [threw |-> FALSE, root |-> x, parent |-> p]
    ELSE LET r == findSet_noCompression(p, p[x])
         IN IF r.threw THEN r
            ELSE [threw |-> FALSE, root |-> r.root, parent |-> p]

RECURSIVE findSet(_, _)
\* returns [threw, root, parent]: the root of x and the compressed parent map
findSet(p, x) ==
    IF x \notin DOMAIN p
    THEN [threw |-> TRUE, root |-> x, parent |-> p]
    ELSE IF p[x] = x
    THEN [threw |-> FALSE, root |-> x, parent |-> p]
    ELSE LET r == findSet(p, p[x])
         IN IF r.threw THEN r
            ELSE [threw |-> FALSE, root |-> r.root,
                  parent |-> [r.parent EXCEPT ![x] = r.root]]

\* union that reports a merge without comparing the two roots
union_alwaysMerged(p, rk, a, b) ==
    LET fa == findSet(p, a) IN
    IF fa.threw
    THEN [threw |-> TRUE, merged |-> FALSE, parent |-> p, rank |-> rk]
    ELSE
    LET fb == findSet(fa.parent, b) IN
    IF fb.threw
    THEN [threw |-> TRUE, merged |-> FALSE, parent |-> fa.parent, rank |-> rk]
    ELSE [threw |-> FALSE, merged |-> TRUE,
          parent |-> [fb.parent EXCEPT ![fb.root] = fa.root], rank |-> rk]

\* union that hangs b itself, not the root of b, under the root of a
union_linksVertex(p, rk, a, b) ==
    LET fa == findSet(p, a) IN
    IF fa.threw
    THEN [threw |-> TRUE, merged |-> FALSE, parent |-> p, rank |-> rk]
    ELSE
    LET fb == findSet(fa.parent, b) IN
    IF fb.threw
    THEN [threw |-> TRUE, merged |-> FALSE, parent |-> fa.parent, rank |-> rk]
    ELSE IF fa.root = fb.root
    THEN [threw |-> FALSE, merged |-> FALSE, parent |-> fb.parent, rank |-> rk]
    ELSE [threw |-> FALSE, merged |-> TRUE,
          parent |-> [fb.parent EXCEPT ![b] = fa.root],
          rank |-> [rk EXCEPT ![fa.root] = rk[fa.root] + 1]]

\* union that leaves the rank of the surviving root alone on a tie
union_noRankIncrement(p, rk, a, b) ==
    LET fa == findSet(p, a) IN
    IF fa.threw
    THEN [threw |-> TRUE, merged |-> FALSE, parent |-> p, rank |-> rk]
    ELSE
    LET fb == findSet(fa.parent, b) IN
    IF fb.threw
    THEN [threw |-> TRUE, merged |-> FALSE, parent |-> fa.parent, rank |-> rk]
    ELSE IF fa.root = fb.root
    THEN [threw |-> FALSE, merged |-> FALSE, parent |-> fb.parent, rank |-> rk]
    ELSE IF rk[fa.root] < rk[fb.root]
    THEN [threw |-> FALSE, merged |-> TRUE,
          parent |-> [fb.parent EXCEPT ![fa.root] = fb.root], rank |-> rk]
    ELSE [threw |-> FALSE, merged |-> TRUE,
          parent |-> [fb.parent EXCEPT ![fb.root] = fa.root], rank |-> rk]

\* returns [threw, merged, parent, rank]
union(p, rk, a, b) ==
    LET fa == findSet(p, a) IN
    IF fa.threw
    THEN [threw |-> TRUE, merged |-> FALSE, parent |-> p, rank |-> rk]
    ELSE
    LET fb == findSet(fa.parent, b) IN
    IF fb.threw
    THEN [threw |-> TRUE, merged |-> FALSE, parent |-> fa.parent, rank |-> rk]
    ELSE
    LET rootA == fa.root
        rootB == fb.root
        p2 == fb.parent
    IN  IF rootA = rootB
        THEN [threw |-> FALSE, merged |-> FALSE, parent |-> p2, rank |-> rk]
        ELSE IF rootA \notin DOMAIN rk \/ rootB \notin DOMAIN rk
        THEN [threw |-> TRUE, merged |-> FALSE, parent |-> p2, rank |-> rk]
        ELSE IF rk[rootA] < rk[rootB]
        THEN [threw |-> FALSE, merged |-> TRUE,
              parent |-> [p2 EXCEPT ![rootA] = rootB], rank |-> rk]
        ELSE IF rk[rootA] > rk[rootB]
        THEN [threw |-> FALSE, merged |-> TRUE,
              parent |-> [p2 EXCEPT ![rootB] = rootA], rank |-> rk]
        ELSE [threw |-> FALSE, merged |-> TRUE,
              parent |-> [p2 EXCEPT ![rootB] = rootA],
              rank |-> [rk EXCEPT ![rootA] = rk[rootA] + 1]]

\* ---------------------------------------------------------- PriorityQueue
isEmpty(h) == Len(h) = 0
size(h) == Len(h)

\* heap_array[c] with the code's 0-based index c
At(h, c) == h[c + 1]
Swap(h, a, b) == [h EXCEPT ![a + 1] = h[b + 1], ![b + 1] = h[a + 1]]

\* bubbleUp that leaves the new element where it was pushed
bubbleUp_noSwap(h, currentIndex) == h

RECURSIVE bubbleUp(_, _)
bubbleUp(h, currentIndex) ==
    IF currentIndex > 0
    THEN LET parentIndex == (currentIndex - 1) \div 2
         IN IF At(h, currentIndex).priority < At(h, parentIndex).priority
            THEN bubbleUp(Swap(h, currentIndex, parentIndex), parentIndex)
            ELSE h
    ELSE h

enqueue(h, element) ==
    LET pushed == Append(h, element)
    IN bubbleUp(pushed, size(pushed) - 1)

RECURSIVE bubbleDown_leftOnly(_, _)
\* bubbleDown that never looks at the right child
bubbleDown_leftOnly(h, currentIndex) ==
    LET leftChildIndex == 2 * currentIndex + 1 IN
    IF leftChildIndex < size(h)
       /\ At(h, leftChildIndex).priority < At(h, currentIndex).priority
    THEN bubbleDown_leftOnly(Swap(h, currentIndex, leftChildIndex), leftChildIndex)
    ELSE h

RECURSIVE bubbleDown(_, _)
bubbleDown(h, currentIndex) ==
    LET n == size(h) IN
    IF currentIndex < n
    THEN LET leftChildIndex == 2 * currentIndex + 1
             rightChildIndex == 2 * currentIndex + 2
             s1 == IF leftChildIndex < n
                      /\ At(h, leftChildIndex).priority
                            < At(h, currentIndex).priority
                   THEN leftChildIndex ELSE currentIndex
             smallestIndex ==
                   IF rightChildIndex < n
                      /\ At(h, rightChildIndex).priority < At(h, s1).priority
                   THEN rightChildIndex ELSE s1
         IN IF smallestIndex # currentIndex
            THEN bubbleDown(Swap(h, currentIndex, smallestIndex), smallestIndex)
            ELSE h
    ELSE h

\* dequeue that pops the last element and never moves it to the root
dequeue_dropsLast(h) ==
    IF isEmpty(h)
    THEN [defined |-> FALSE, item |-> [priority |-> 0, vertex |-> 0, parent |-> 0],
          heap |-> h]
    ELSE [defined |-> TRUE, item |-> At(h, 0), heap |-> SubSeq(h, 1, Len(h) - 1)]

\* returns [defined, item, heap]; defined = FALSE stands for `undefined`
dequeue(h) ==
    IF isEmpty(h)
    THEN [defined |-> FALSE, item |-> [priority |-> 0, vertex |-> 0, parent |-> 0],
          heap |-> h]
    ELSE LET minElement == At(h, 0)
             lastElement == h[Len(h)]
             popped == SubSeq(h, 1, Len(h) - 1)
             h2 == IF ~isEmpty(popped)
                   THEN bubbleDown([popped EXCEPT ![1] = lastElement], 0)
                   ELSE popped
         IN IF isEmpty(h2)
            THEN [defined |-> TRUE, item |-> lastElement, heap |-> h2]
            ELSE [defined |-> TRUE, item |-> minElement, heap |-> h2]

\* ------------------------------------------------------------- kruskalMST
RECURSIVE insertSorted_beforeEqual(_, _)
\* an unstable insertion: edge goes in front of the elements of its own weight
insertSorted_beforeEqual(s, edge) ==
    IF s = <<>> THEN <<edge>>
    ELSE IF s[Len(s)].weight - edge.weight < 0
    THEN Append(s, edge)
    ELSE Append(insertSorted_beforeEqual(SubSeq(s, 1, Len(s) - 1), edge),
                s[Len(s)])

RECURSIVE insertSorted(_, _)
\* place edge after every element whose weight is <= its own
insertSorted(s, edge) ==
    IF s = <<>> THEN <<edge>>
    ELSE IF s[Len(s)].weight - edge.weight <= 0
    THEN Append(s, edge)
    ELSE Append(insertSorted(SubSeq(s, 1, Len(s) - 1), edge), s[Len(s)])

\* the copy without the sort
sortEdges_unsorted(edges) == edges

RECURSIVE sortEdges(_)
\* g.edges.slice().sort((a, b) => a.weight - b.weight): stable, ascending
sortEdges(edges) ==
    IF edges = <<>> THEN <<>>
    ELSE insertSorted(sortEdges(SubSeq(edges, 1, Len(edges) - 1)),
                      edges[Len(edges)])

\* a sort of g.edges itself, without the slice() that copies it first
sliceSort_inPlace(edges) ==
    [receiver |-> sortEdges(edges), sorted |-> sortEdges(edges)]

\* g.edges.slice().sort(..): the sorted copy, and g.edges as the call leaves it
sliceSort(edges) == [receiver |-> edges, sorted |-> sortEdges(edges)]

\* the early exit of the for-loop: result.length === g.vertices.length - 1
kruskalComplete(graph, res) == Len(res) = Len(graph.vertices) - 1

\* ---------------------------------------------------------------- primMST
\* vertexIndex.set(g.vertices[i], i)
vertexIndex(vertices) ==
    [v \in Range(vertices) |->
        (CHOOSE k \in 1..Len(vertices) :
            vertices[k] = v /\ \A m \in (k + 1)..Len(vertices) : vertices[m] # v) - 1]

\* enqueueNeighbors that stops after the first neighbour
enqueueAll_firstOnly(h, neighbors, from, vIndex, vis) ==
    IF neighbors = <<>> THEN [threw |-> FALSE, heap |-> h]
    ELSE LET neighbor == Head(neighbors) IN
         IF neighbor.to \notin DOMAIN vIndex
         THEN [threw |-> TRUE, heap |-> h]
         ELSE IF ~vis[vIndex[neighbor.to]]
         THEN [threw |-> FALSE,
               heap |-> enqueue(h, [priority |-> neighbor.weight,
                                    vertex |-> neighbor.to,
                                    parent |-> from])]
         ELSE [threw |-> FALSE, heap |-> h]

RECURSIVE enqueueAll_wrongParent(_, _, _, _, _)
\* enqueueNeighbors that records the neighbour itself as the parent
enqueueAll_wrongParent(h, neighbors, from, vIndex, vis) ==
    IF neighbors = <<>> THEN [threw |-> FALSE, heap |-> h]
    ELSE LET neighbor == Head(neighbors) IN
         IF neighbor.to \notin DOMAIN vIndex
         THEN [threw |-> TRUE, heap |-> h]
         ELSE IF ~vis[vIndex[neighbor.to]]
         THEN enqueueAll_wrongParent(
                  enqueue(h, [priority |-> neighbor.weight,
                              vertex |-> neighbor.to,
                              parent |-> neighbor.to]),
                  Tail(neighbors), from, vIndex, vis)
         ELSE enqueueAll_wrongParent(h, Tail(neighbors), from, vIndex, vis)

RECURSIVE enqueueAll(_, _, _, _, _)
\* the for-loop of enqueueNeighbors over the remaining neighbours
enqueueAll(h, neighbors, from, vIndex, vis) ==
    IF neighbors = <<>> THEN [threw |-> FALSE, heap |-> h]
    ELSE LET neighbor == Head(neighbors) IN
         IF neighbor.to \notin DOMAIN vIndex
         THEN [threw |-> TRUE, heap |-> h]
         ELSE IF ~vis[vIndex[neighbor.to]]
         THEN enqueueAll(enqueue(h, [priority |-> neighbor.weight,
                                     vertex |-> neighbor.to,
                                     parent |-> from]),
                         Tail(neighbors), from, vIndex, vis)
         ELSE enqueueAll(h, Tail(neighbors), from, vIndex, vis)

\* returns [threw, heap]
enqueueNeighbors(h, graph, from, vis) ==
    LET neighbors == IF from \in DOMAIN graph.adjList
                     THEN graph.adjList[from] ELSE <<>>
    IN enqueueAll(h, neighbors, from, vertexIndex(graph.vertices), vis)

\* primMST without its early return
primTrivial_noGuard(graph) == FALSE

\* the early return of primMST: no vertex or no edge
primTrivial(graph) == Len(graph.vertices) = 0 \/ Len(graph.edges) = 0

\* the while condition of primMST
primContinues(graph, tree, h) ==
    Len(tree) < Len(graph.vertices) - 1 /\ ~isEmpty(h)

\* ---------------------------------------------------------------- actions
Locals0 ==
    /\ pc = "kruskal"
    /\ parent = <<>> /\ rank = <<>>
    /\ edgesSorted = <<>> /\ i = 0 /\ result = <<>>
    /\ kruskalStatus = "idle"
    /\ visited = <<>> /\ heap_array = <<>> /\ mst = <<>>
    /\ primStatus = "idle"
    /\ last = [op |-> "none"] /\ sets = {} /\ enqueued = <<>> /\ dequeued = <<>>

\* well-formed graphs: every endpoint is a vertex
Init ==
    /\ \E n \in 0..NumVertices : \E k \in 0..MaxEdges :
         \E es \in [1..k -> EdgesOver(0..(n - 1), 1..MaxWeight)] :
            g = MakeGraph(Vertices(n), es)
    /\ Locals0

\* kruskalMST entry up to the first loop test
KruskalCall ==
    /\ pc = "kruskal"
    /\ parent' = DisjointSetParent(g.vertices)
    /\ rank' = DisjointSetRank(g.vertices)
    /\ LET s == sliceSort(g.edges)
       IN /\ edgesSorted' = s.sorted
          /\ g' = [g EXCEPT !.edges = s.receiver]
    /\ i' = 0
    /\ result' = <<>>
    /\ IF 0 < Len(edgesSorted')
       THEN kruskalStatus' = "running" /\ pc' = "kruskalLoop"
       ELSE kruskalStatus' = "returned" /\ pc' = "prim"
    /\ UNCHANGED <<primVars, callerVars>>

\* one iteration of the for-loop, with the loop exit that follows it
KruskalIter ==
    /\ pc = "kruskalLoop"
    /\ LET edge == edgesSorted[i + 1]
           r == union(parent, rank, edge.u, edge.v)
       IN /\ parent' = r.parent
          /\ rank' = r.rank
          /\ IF r.threw
             THEN /\ kruskalStatus' = "threw"
                  /\ pc' = "prim"
                  /\ UNCHANGED <<i, result>>
             ELSE /\ result' = IF r.merged THEN Append(result, edge) ELSE result
                  /\ IF kruskalComplete(g, result')
                     THEN /\ i' = i
                          /\ kruskalStatus' = "returned"
                          /\ pc' = "prim"
                     ELSE /\ i' = i + 1
                          /\ IF i' < Len(edgesSorted)
                             THEN UNCHANGED <<kruskalStatus, pc>>
                             ELSE kruskalStatus' = "returned" /\ pc' = "prim"
    /\ UNCHANGED <<g, edgesSorted, primVars, callerVars>>

\* primMST entry up to the first loop test
PrimCall ==
    /\ pc = "prim"
    /\ mst' = <<>>
    /\ IF primTrivial(g)
       THEN /\ primStatus' = "returned"
            /\ pc' = "done"
            /\ UNCHANGED <<visited, heap_array>>
       ELSE IF Len(g.vertices) = 0
       THEN \* g.vertices[0] is undefined and so is its index
            /\ primStatus' = "threw"
            /\ pc' = "done"
            /\ UNCHANGED <<visited, heap_array>>
       ELSE LET startVertex == g.vertices[1]
                vIndex == vertexIndex(g.vertices)
                vis == [[k \in 0..(Len(g.vertices) - 1) |-> FALSE]
                            EXCEPT ![vIndex[startVertex]] = TRUE]
                e == enqueueNeighbors(<<>>, g, startVertex, vis)
            IN /\ visited' = vis
               /\ heap_array' = e.heap
               /\ IF e.threw
                  THEN primStatus' = "threw" /\ pc' = "done"
                  ELSE IF primContinues(g, mst', e.heap)
                  THEN primStatus' = "running" /\ pc' = "primLoop"
                  ELSE primStatus' = "returned" /\ pc' = "done"
    /\ UNCHANGED <<g, kruskalVars, callerVars>>

\* one iteration of the while-loop, with the loop test that follows it
PrimIter ==
    /\ pc = "primLoop"
    /\ LET d == dequeue(heap_array)
           queueItem == d.item
           vIndex == vertexIndex(g.vertices)
       IN IF ~d.defined
          THEN /\ heap_array' = d.heap
               /\ UNCHANGED <<visited, mst>>
               /\ IF primContinues(g, mst, d.heap)
                  THEN UNCHANGED <<primStatus, pc>>
                  ELSE primStatus' = "returned" /\ pc' = "done"
          ELSE IF queueItem.vertex \notin DOMAIN vIndex
          THEN /\ heap_array' = d.heap
               /\ UNCHANGED <<visited, mst>>
               /\ primStatus' = "threw" /\ pc' = "done"
          ELSE IF visited[vIndex[queueItem.vertex]]
          THEN /\ heap_array' = d.heap
               /\ UNCHANGED <<visited, mst>>
               /\ IF primContinues(g, mst, d.heap)
                  THEN UNCHANGED <<primStatus, pc>>
                  ELSE primStatus' = "returned" /\ pc' = "done"
          ELSE LET vis == [visited EXCEPT ![vIndex[queueItem.vertex]] = TRUE]
                   e == enqueueNeighbors(d.heap, g, queueItem.vertex, vis)
               IN /\ visited' = vis
                  /\ mst' = Append(mst, [u |-> queueItem.parent,
                                         v |-> queueItem.vertex,
                                         weight |-> queueItem.priority])
                  /\ heap_array' = e.heap
                  /\ IF e.threw
                     THEN primStatus' = "threw" /\ pc' = "done"
                     ELSE IF primContinues(g, mst', e.heap)
                     THEN UNCHANGED <<primStatus, pc>>
                     ELSE primStatus' = "returned" /\ pc' = "done"
    /\ last' = [op |-> "primIter", defined |-> dequeue(heap_array).defined,
                item |-> dequeue(heap_array).item,
                visited |-> visited, mst |-> mst, heap |-> heap_array]
    /\ UNCHANGED <<g, kruskalVars, sets, enqueued, dequeued>>

Next == KruskalCall \/ KruskalIter \/ PrimCall \/ PrimIter

Spec == Init /\ [][Next]_vars

\* graphs whose weights are pairwise distinct: only the order of the weights
\* matters to either algorithm, so edge j weighs w[j] for a permutation w
InitDistinct ==
    /\ \E nv \in 0..NumVertices : \E k \in 0..MaxEdges :
         \E ends \in [1..k -> (0..(nv - 1)) \X (0..(nv - 1))] :
           \E w \in Permutations(1..k) :
              g = MakeGraph(Vertices(nv),
                            [j \in 1..k |-> [u |-> ends[j][1], v |-> ends[j][2],
                                             weight |-> w[j]]])
    /\ Locals0

SpecDistinct == InitDistinct /\ [][Next]_vars

\* two disconnected triangles on six vertices: the first triangle is any
\* three of the vertices, the second the other three; every weight is free
TriangleEdges(t, flip) ==
    LET a == CHOOSE x \in t : \A y \in t : x <= y
        c == CHOOSE x \in t : \A y \in t : x >= y
        b == CHOOSE x \in t : x # a /\ x # c
    IN IF flip THEN <<<<b, a>>, <<c, b>>, <<c, a>>>>
               ELSE <<<<a, b>>, <<b, c>>, <<a, c>>>>

InitTriangles ==
    /\ \E t \in {x \in SUBSET (0..5) : Cardinality(x) = 3} :
         \E flip \in BOOLEAN : \E w \in [1..6 -> 1..MaxWeight] :
            LET ends == TriangleEdges(t, flip) \o TriangleEdges((0..5) \ t, flip)
            IN g = MakeGraph(Vertices(6),
                             [j \in 1..6 |-> [u |-> ends[j][1], v |-> ends[j][2],
                                              weight |-> w[j]]])
    /\ Locals0

SpecTriangles == InitTriangles /\ [][Next]_vars

\* graphs whose edges may name a vertex that is not in vertices: the
\* identifier MalformedVertices never is, smaller ones are not when the
\* vertex list is shorter
InitMalformed ==
    /\ \E nv \in 0..MalformedVertices : \E k \in 0..MaxEdges :
         \E es \in [1..k -> EdgesOver(0..MalformedVertices, 1..MaxWeight)] :
            g = MakeGraph(Vertices(nv), es)
    /\ Locals0

SpecMalformed == InitMalformed /\ [][Next]_vars

\* ------------------------------------------- a caller of DisjointSet alone
\* new DisjointSet(vertices) over 1..NumVertices vertices, no call made yet
InitDS ==
    /\ \E nv \in 1..NumVertices : g = MakeGraph(Vertices(nv), <<>>)
    /\ pc = "disjointSet"
    /\ parent = DisjointSetParent(g.vertices)
    /\ rank = DisjointSetRank(g.vertices)
    /\ edgesSorted = <<>> /\ i = 0 /\ result = <<>>
    /\ kruskalStatus = "idle"
    /\ visited = <<>> /\ heap_array = <<>> /\ mst = <<>>
    /\ primStatus = "idle"
    /\ last = [op |-> "none"]
    /\ sets = {{v} : v \in Range(g.vertices)}
    /\ enqueued = <<>> /\ dequeued = <<>>

\* the block of the partition P that holds x
Block(P, x) == CHOOSE B \in P : x \in B

\* union(a, b) on any two identifiers, the first absent one included
CallUnion ==
    /\ pc = "disjointSet"
    /\ \E a, b \in 0..Len(g.vertices) :
         LET r == union(parent, rank, a, b)
         IN /\ parent' = r.parent
            /\ rank' = r.rank
            /\ last' = [op |-> "union", a |-> a, b |-> b,
                        threw |-> r.threw, ret |-> r.merged,
                        sameSetBefore |->
                            /\ {a, b} \subseteq Range(g.vertices)
                            /\ Block(sets, a) = Block(sets, b)]
            /\ sets' = IF {a, b} \subseteq Range(g.vertices)
                       THEN (sets \ {Block(sets, a), Block(sets, b)})
                               \cup {Block(sets, a) \cup Block(sets, b)}
                       ELSE sets
    /\ UNCHANGED <<g, pc, edgesSorted, i, result, kruskalStatus, primVars,
                   enqueued, dequeued>>

\* findSet(x) on any identifier, the first absent one included
CallFindSet ==
    /\ pc = "disjointSet"
    /\ \E x \in 0..Len(g.vertices) :
         LET r == findSet(parent, x)
         IN /\ parent' = r.parent
            /\ last' = [op |-> "findSet", a |-> x, b |-> x,
                        threw |-> r.threw, ret |-> r.root,
                        sameSetBefore |-> TRUE,
                        before |-> parent, rankBefore |-> rank]
    /\ UNCHANGED <<g, pc, rank, edgesSorted, i, result, kruskalStatus, primVars,
                   sets, enqueued, dequeued>>

NextDS == CallUnion \/ CallFindSet

SpecDS == InitDS /\ [][NextDS]_vars

\* ----------------------------------------- a caller of PriorityQueue alone
\* new PriorityQueue(), no call made yet
InitPQ ==
    /\ g = MakeGraph(Vertices(0), <<>>)
    /\ pc = "queueFill"
    /\ parent = <<>> /\ rank = <<>>
    /\ edgesSorted = <<>> /\ i = 0 /\ result = <<>>
    /\ kruskalStatus = "idle"
    /\ visited = <<>> /\ heap_array = <<>> /\ mst = <<>>
    /\ primStatus = "idle"
    /\ last = [op |-> "none"]
    /\ sets = {}
    /\ enqueued = <<>> /\ dequeued = <<>>

\* enqueue(item): the item's vertex field numbers the enqueue calls, so that
\* two items of one priority remain two objects
CallEnqueue ==
    /\ pc \in {"queueFill", "queueDrain", "queueMixed"}
    /\ Len(enqueued) < MaxQueue
    /\ \E pr \in 1..MaxPriority :
         LET item == [priority |-> pr, vertex |-> Len(enqueued), parent |-> 0]
         IN /\ heap_array' = enqueue(heap_array, item)
            /\ enqueued' = Append(enqueued, item)
            /\ last' = [op |-> "enqueue", defined |-> TRUE, item |-> item,
                        before |-> heap_array]
    /\ pc' = IF pc = "queueFill" THEN "queueFill" ELSE "queueMixed"
    /\ UNCHANGED <<g, kruskalVars, visited, mst, primStatus, sets, dequeued>>

\* dequeue(), on an empty queue too
CallDequeue ==
    /\ pc \in {"queueFill", "queueDrain", "queueMixed"}
    /\ LET d == dequeue(heap_array)
       IN /\ heap_array' = d.heap
          /\ dequeued' = IF d.defined THEN Append(dequeued, d.item) ELSE dequeued
          /\ last' = [op |-> "dequeue", defined |-> d.defined, item |-> d.item,
                      before |-> heap_array]
    /\ pc' = IF pc = "queueFill" THEN "queueDrain" ELSE pc
    /\ UNCHANGED <<g, kruskalVars, visited, mst, primStatus, sets, enqueued>>

NextPQ == CallEnqueue \/ CallDequeue

SpecPQ == InitPQ /\ [][NextPQ]_vars

\* ------------------------------------------------------ graph vocabulary
Endpoints(es) == {es[k].u : k \in 1..Len(es)} \cup {es[k].v : k \in 1..Len(es)}

RECURSIVE ReachFrom(_, _)
\* the vertices joined to S by a path of edges of es, read undirected
ReachFrom(S, es) ==
    LET T == S \cup {es[k].v : k \in {j \in 1..Len(es) : es[j].u \in S}}
               \cup {es[k].u : k \in {j \in 1..Len(es) : es[j].v \in S}}
    IN IF T = S THEN S ELSE ReachFrom(T, es)

NumComponents(V, es) == Cardinality({ReachFrom({v}, es) : v \in V})

\* a forest has exactly |V| - #components edges (a self-loop or a parallel
\* edge is one edge too many)
Acyclic(es) ==
    Len(es) = Cardinality(Endpoints(es)) - NumComponents(Endpoints(es), es)

SingleTree(es) == Acyclic(es) /\ NumComponents(Endpoints(es), es) <= 1

RECURSIVE Weight(_)
Weight(es) == IF es = <<>> THEN 0 ELSE es[1].weight + Weight(Tail(es))

WellFormed(graph) == Endpoints(graph.edges) \subseteq Range(graph.vertices)

Connected(graph) ==
    /\ WellFormed(graph)
    /\ Len(graph.vertices) >= 1
    /\ ReachFrom({graph.vertices[1]}, graph.edges) = Range(graph.vertices)

\* two or more components
Disconnected(graph) ==
    /\ WellFormed(graph)
    /\ NumComponents(Range(graph.vertices), graph.edges) >= 2

RECURSIVE Pick(_, _)
\* the subsequence of es at the index set T
Pick(es, T) ==
    IF es = <<>> THEN <<>>
    ELSE LET rest == Pick(SubSeq(es, 1, Len(es) - 1), T)
         IN IF Len(es) \in T THEN Append(rest, es[Len(es)]) ELSE rest

SpanningTrees(graph) ==
    {T \in SUBSET (1..Len(graph.edges)) :
        /\ Cardinality(T) = Len(graph.vertices) - 1
        /\ ReachFrom({graph.vertices[1]}, Pick(graph.edges, T))
              = Range(graph.vertices)}

IsMinSpanningWeight(graph, w) ==
    /\ \E T \in SpanningTrees(graph) : Weight(Pick(graph.edges, T)) = w
    /\ \A T \in SpanningTrees(graph) : Weight(Pick(graph.edges, T)) >= w

Undirected(e) == [ends |-> {e.u, e.v}, weight |-> e.weight]
EdgeSet(es) == {Undirected(es[k]) : k \in 1..Len(es)}

nVertices == Len(g.vertices)
BothReturned == kruskalStatus = "returned" /\ primStatus = "returned"

\* the edges that are not self-loops
NonLoops(es) == SelectSeq(es, LAMBDA e : e.u # e.v)

\* the component of vertices[0]
StartComponent(graph) ==
    IF graph.vertices = <<>> THEN {}
    ELSE ReachFrom({graph.vertices[1]}, graph.edges)

\* the edges of es with both ends in the vertex set t
Within(es, t) == SelectSeq(es, LAMBDA e : {e.u, e.v} \subseteq t)

\* some adjacency entry names a vertex that is not in vertices
AdjacencyMalformed(graph) ==
    \E v \in DOMAIN graph.adjList : \E k \in 1..Len(graph.adjList[v]) :
        graph.adjList[v][k].to \notin Range(graph.vertices)

\* ----------------------------------------------------------------- claims

\* C1: on every connected graph with n >= 1 vertices kruskalMST and primMST
\* both return, each with exactly n-1 edges.
C1_SpanningSize ==
    (pc = "done" /\ Connected(g)) =>
        /\ BothReturned
        /\ Len(result) = nVertices - 1
        /\ Len(mst) = nVertices - 1

\* a connected graph with a cycle: some edge had to be left out
C1_Witness ==
    /\ pc = "done" /\ Connected(g)
    /\ Len(g.edges) > nVertices - 1 /\ nVertices >= 3
    /\ Len(result) = nVertices - 1 /\ Len(mst) = nVertices - 1

\* C2: on every connected graph the edges kruskalMST returns are edges of
\* the graph that connect all vertices, contain no cycle, and weigh the
\* minimum over all spanning trees.
C2_KruskalMinimum ==
    (pc = "done" /\ Connected(g)) =>
        /\ kruskalStatus = "returned"
        /\ Range(result) \subseteq Range(g.edges)
        /\ ReachFrom({g.vertices[1]}, result) = Range(g.vertices)
        /\ Acyclic(result)
        /\ IsMinSpanningWeight(g, Weight(result))

\* a connected graph with spanning trees of different weight
C2_Witness ==
    /\ pc = "done" /\ Connected(g) /\ nVertices >= 3
    /\ \E T \in SpanningTrees(g) : Weight(Pick(g.edges, T)) > Weight(result)

\* C3: on every connected graph the weights of kruskalMST's edges and of
\* primMST's edges have the same sum.
C3_SameWeight ==
    (pc = "done" /\ Connected(g)) =>
        /\ BothReturned
        /\ Weight(result) = Weight(mst)

\* equal weights let the two algorithms pick different trees of one weight
C3_Witness ==
    /\ pc = "done" /\ Connected(g) /\ BothReturned
    /\ EdgeSet(result) # EdgeSet(mst)
    /\ Weight(result) = Weight(mst)

\* C4 as stated: on every graph with pairwise distinct weights kruskalMST
\* and primMST return the same set of edges up to direction.
C4_Original ==
    (pc = "done" /\ BothReturned) => EdgeSet(result) = EdgeSet(mst)

\* C4 amended: on every well-formed graph with pairwise distinct weights
\* primMST returns, up to direction, exactly those edges of kruskalMST's
\* result that lie in the component of vertices[0]; so on every connected
\* graph the two return the same set of edges.
C4_SameSetInStartComponent ==
    pc = "done" =>
        /\ BothReturned
        /\ EdgeSet(mst) =
              {e \in EdgeSet(result) : e.ends \subseteq StartComponent(g)}
        /\ (Connected(g) => EdgeSet(result) = EdgeSet(mst))

\* a connected graph with a cycle of distinct weights, and the two results
\* in different order or direction
C4_Witness ==
    /\ pc = "done" /\ Connected(g) /\ BothReturned
    /\ Len(NonLoops(g.edges)) > nVertices - 1 /\ nVertices >= 3
    /\ result # mst
    /\ EdgeSet(result) = EdgeSet(mst)

\* C5: on every graph, connected or not, with self-loops or parallel edges,
\* the edges kruskalMST returns and the edges primMST returns contain no
\* cycle.
C5_NoCycle ==
    pc = "done" =>
        /\ (kruskalStatus = "returned" => Acyclic(result))
        /\ (primStatus = "returned" => Acyclic(mst))

\* a graph with a self-loop and a pair of parallel edges: one edge is kept
C5_Witness ==
    /\ pc = "done" /\ BothReturned
    /\ \E j \in 1..Len(g.edges) : g.edges[j].u = g.edges[j].v
    /\ \E j, k \in 1..Len(g.edges) :
            j # k /\ g.edges[j].u # g.edges[j].v
                  /\ Undirected(g.edges[j]).ends = Undirected(g.edges[k]).ends
    /\ Len(result) = 1 /\ Len(mst) = 1

\* C6 as stated: on every graph the edges returned by each of kruskalMST
\* and primMST form a single tree over their endpoints.
C6_Original ==
    pc = "done" =>
        /\ (kruskalStatus = "returned" => SingleTree(result))
        /\ (primStatus = "returned" => SingleTree(mst))

\* C6 amended: on every well-formed graph primMST's edges form a single
\* tree, which holds vertices[0] unless it is empty; kruskalMST's edges
\* form a single tree exactly when all edges of the graph that are not
\* self-loops lie in one component, and a forest otherwise.
C6_TreeOrForest ==
    pc = "done" =>
        /\ primStatus = "returned" =>
              /\ SingleTree(mst)
              /\ (mst # <<>> => g.vertices[1] \in Endpoints(mst))
        /\ kruskalStatus = "returned" =>
              /\ Acyclic(result)
              /\ SingleTree(result) <=>
                    NumComponents(Endpoints(NonLoops(g.edges)), g.edges) <= 1

\* a disconnected graph with edges in two components: kruskalMST returns a
\* two-tree forest, primMST the tree of the component of vertices[0]
C6_Witness ==
    /\ pc = "done" /\ BothReturned
    /\ NumComponents(Endpoints(result), result) = 2
    /\ Len(mst) = 1 /\ SingleTree(mst)

\* C7 as stated: on two disconnected triangles each of kruskalMST and
\* primMST returns exactly 4 edges, 2 from each triangle.
C7_Original ==
    pc = "done" =>
        /\ BothReturned
        /\ Len(result) = 4 /\ Len(mst) = 4
        /\ Len(Within(result, StartComponent(g))) = 2
        /\ Len(Within(mst, StartComponent(g))) = 2

\* C7 amended: on two disconnected triangles kruskalMST returns exactly 4
\* edges, 2 from each triangle, and primMST returns exactly 2 edges, both
\* from the triangle that holds vertices[0].
C7_TwoTriangles ==
    pc = "done" =>
        /\ BothReturned
        /\ Len(result) = 4
        /\ Len(Within(result, StartComponent(g))) = 2
        /\ Len(Within(result, Range(g.vertices) \ StartComponent(g))) = 2
        /\ Len(mst) = 2
        /\ Len(Within(mst, StartComponent(g))) = 2

\* both algorithms have run over two triangles
C7_Witness ==
    /\ pc = "done" /\ BothReturned
    /\ Cardinality(StartComponent(g)) = 3
    /\ Len(g.edges) = 6 /\ Len(result) = 4 /\ Len(mst) = 2

\* C8: on every well-formed graph with two or more components both
\* algorithms return normally, each with fewer than n-1 edges.
C8_DisconnectedShort ==
    (pc = "done" /\ Disconnected(g)) =>
        /\ BothReturned
        /\ Len(result) < nVertices - 1
        /\ Len(mst) < nVertices - 1

\* a disconnected graph that offers n-1 or more edges, parallel ones among
\* them, and edges away from the component of vertices[0]
C8_Witness ==
    /\ pc = "done" /\ Disconnected(g) /\ BothReturned
    /\ Len(NonLoops(g.edges)) >= nVertices - 1
    /\ Len(result) > Len(mst)

\* C9: whenever some edge names a vertex that is not in vertices,
\* kruskalMST throws, wherever the edge falls in the weight order.
C9_KruskalAlwaysThrows ==
    (pc = "done" /\ ~WellFormed(g)) => kruskalStatus = "threw"

\* C10: whenever some adjacency entry names a vertex that is not in
\* vertices, primMST throws.
C10_PrimAlwaysThrows ==
    (pc = "done" /\ AdjacencyMalformed(g)) => primStatus = "threw"

\* C11: on a well-formed graph with zero vertices or zero edges (a single
\* vertex and no edges among them) kruskalMST and primMST each return an
\* empty sequence and raise no error.
C11_EmptyInput ==
    (pc = "done" /\ WellFormed(g) /\ (nVertices = 0 \/ Len(g.edges) = 0)) =>
        /\ BothReturned
        /\ result = <<>> /\ mst = <<>>

\* the single-vertex graph without edges has been through both algorithms
C11_Witness ==
    /\ pc = "done" /\ BothReturned
    /\ g.vertices = <<0>> /\ g.edges = <<>>
    /\ result = <<>> /\ mst = <<>>

\* C12: after any sequence of union calls, union(a,b) returns true exactly
\* when a and b were in different sets before the call; and when it has
\* returned true, findSet(a) = findSet(b) and a second union(a,b) returns
\* false.
C12_UnionMerges ==
    (last.op = "union" /\ ~last.threw) =>
        /\ last.ret <=> ~last.sameSetBefore
        /\ last.ret =>
              /\ findSet(parent, last.a).root = findSet(parent, last.b).root
              /\ ~union(parent, rank, last.a, last.b).merged

\* a union of two vertices neither of which is a root afterwards, which joined
\* two sets of two into one set of four
C12_Witness ==
    /\ last.op = "union" /\ last.ret
    /\ Cardinality(Block(sets, last.a)) = 4
    /\ parent[last.a] # last.a /\ parent[last.b] # last.b
    /\ \E v \in DOMAIN rank : rank[v] = 2

\* priorities never fall along s
NonDecreasing(s) == \A k \in 1..(Len(s) - 1) : s[k].priority <= s[k + 1].priority

\* C13: enqueue calls on an empty PriorityQueue followed by dequeue calls
\* until it is empty give back the enqueued items, each exactly once, in
\* non-decreasing priority order.
C13_DrainSorted ==
    (pc = "queueDrain" /\ isEmpty(heap_array)) =>
        /\ NonDecreasing(dequeued)
        /\ Len(dequeued) = Len(enqueued)
        /\ Range(dequeued) = Range(enqueued)

\* a full queue drained, which was not filled in priority order
C13_Witness ==
    /\ pc = "queueDrain" /\ isEmpty(heap_array)
    /\ Len(enqueued) = MaxQueue /\ Len(dequeued) = MaxQueue
    /\ dequeued # enqueued
    /\ \E j, k \in 1..Len(enqueued) :
          j # k /\ enqueued[j].priority = enqueued[k].priority

\* C14: neither kruskalMST nor primMST changes its input: no step of either
\* call, returning or throwing, changes g.vertices, g.edges (the order of
\* its elements included) or g.adjList.
C14_InputUnchanged == [][g' = g]_vars

\* kruskalMST has thrown and primMST returned on a graph whose edge list is
\* not in weight order, and is still not
C14_Witness ==
    /\ pc = "done" /\ kruskalStatus = "threw" /\ primStatus = "returned"
    /\ Len(mst) >= 1
    /\ sortEdges(g.edges) # g.edges
    /\ g.adjList = buildAdjList(g.vertices, g.edges)

\* C15: kruskalMST keeps its edges in acceptance order: the result is a
\* subsequence of the input edge list stably sorted by ascending weight, so
\* its weights never decrease and accepted edges of equal weight stand in
\* the order they have in the input edge list.
C15_AcceptanceOrder ==
    kruskalStatus \in {"running", "returned"} =>
        \E f \in [1..Len(result) -> 1..Len(g.edges)] :
            /\ \A k \in 1..Len(result) : result[k] = g.edges[f[k]]
            /\ \A k \in 1..(Len(result) - 1) :
                  \/ result[k].weight < result[k + 1].weight
                  \/ /\ result[k].weight = result[k + 1].weight
                     /\ f[k] < f[k + 1]

\* three edges accepted: a light one that stood last in the input comes
\* first, and two of equal weight follow in their input order
C15_Witness ==
    /\ pc = "done" /\ kruskalStatus = "returned"
    /\ Len(result) = 3 /\ Len(g.edges) = 3
    /\ result = <<g.edges[3], g.edges[1], g.edges[2]>>
    /\ g.edges[1].weight = g.edges[2].weight
    /\ g.edges[3].weight < g.edges[1].weight


\* every parent's priority is <= its children's
HeapOrdered(h) ==
    \A c \in 1..(size(h) - 1) : At(h, (c - 1) \div 2).priority <= At(h, c).priority

\* C16: in any interleaving of enqueue and dequeue from an empty queue the
\* backing array is a min-heap after every call, and a dequeue on a
\* non-empty queue returns an element of minimal priority among those held
\* just before and removes exactly that element.
C16_HeapInvariant ==
    /\ HeapOrdered(heap_array)
    /\ (last.op = "dequeue" /\ last.before # <<>>) =>
          /\ last.defined
          /\ last.item \in Range(last.before)
          /\ \A k \in 1..Len(last.before) :
                last.item.priority <= last.before[k].priority
          /\ Range(heap_array) = Range(last.before) \ {last.item}
          /\ Len(heap_array) = Len(last.before) - 1

\* a dequeue from a heap of four or more, made after earlier dequeues and
\* with an enqueue in between, whose last element had to sink to the right
C16_Witness ==
    /\ pc = "queueMixed"
    /\ last.op = "dequeue" /\ Len(last.before) >= 4
    /\ heap_array[3] = last.before[Len(last.before)]

RECURSIVE Depth(_, _, _)
\* the number of parent links from x to a self-parented vertex, or -1 when
\* none is met within fuel links
Depth(p, x, fuel) ==
    IF p[x] = x THEN 0
    ELSE IF fuel = 0 \/ p[x] \notin DOMAIN p THEN -1
    ELSE LET d == Depth(p, p[x], fuel - 1)
         IN IF d < 0 THEN -1 ELSE d + 1

RECURSIVE RootOf(_, _, _)
\* the vertex the parent chain of x ends in, read without writing
RootOf(p, x, fuel) ==
    IF p[x] = x \/ fuel = 0 THEN x ELSE RootOf(p, p[x], fuel - 1)

DepthOf(p, x) == Depth(p, x, Cardinality(DOMAIN p))
RootIn(p, x) == RootOf(p, x, Cardinality(DOMAIN p))

\* C17: after any sequence of union and findSet calls the parent map is a
\* forest (every parent chain ends in a self-parented root and visits no
\* vertex twice), every vertex that is not a root has a rank strictly below
\* the rank of its parent, and the rank of a root is at least the height of
\* its tree.
C17_RankedForest ==
    /\ DOMAIN parent = Range(g.vertices) /\ DOMAIN rank = Range(g.vertices)
    /\ \A v \in DOMAIN parent :
          /\ DepthOf(parent, v) >= 0
          /\ parent[v] # v => rank[v] < rank[parent[v]]
          /\ DepthOf(parent, v) <= rank[RootIn(parent, v)]

\* a findSet has flattened a tree of rank 2: its root keeps rank 2 while no
\* vertex is deeper than 1
C17_Witness ==
    /\ last.op = "findSet" /\ ~last.threw
    /\ \E r \in DOMAIN parent :
          /\ parent[r] = r /\ rank[r] = 2
          /\ \E v \in DOMAIN parent : rank[v] = 1 /\ parent[v] = r
          /\ \A v \in DOMAIN parent : DepthOf(parent, v) <= 1

RECURSIVE Chain(_, _, _)
\* the vertices on the parent chain of x, x and the root included
Chain(p, x, fuel) ==
    IF p[x] = x \/ fuel = 0 THEN {x}
    ELSE {x} \cup Chain(p, p[x], fuel - 1)

ChainOf(p, x) == Chain(p, x, Cardinality(DOMAIN p))
\* the partition a parent map stands for
Partition(p) == {{w \in DOMAIN p : RootIn(p, w) = RootIn(p, v)} : v \in DOMAIN p}

\* C18: findSet(x) on a registered x returns the root of the set of x, and
\* afterwards every vertex on the former parent chain from x to the root
\* points at the root; every other parent pointer, every rank and the
\* partition are as before.
C18_FindSetCompresses ==
    (last.op = "findSet" /\ ~last.threw) =>
        /\ last.ret = RootIn(last.before, last.a)
        /\ last.before[last.ret] = last.ret
        /\ \A v \in ChainOf(last.before, last.a) : parent[v] = last.ret
        /\ \A v \in DOMAIN parent \ ChainOf(last.before, last.a) :
              parent[v] = last.before[v]
        /\ DOMAIN parent = DOMAIN last.before
        /\ rank = last.rankBefore
        /\ Partition(parent) = Partition(last.before)
        /\ Partition(parent) = sets

\* findSet on a vertex two links below its root: the vertex is moved under
\* the root, and a vertex off the chain, not a root, keeps its parent
C18_Witness ==
    /\ last.op = "findSet" /\ ~last.threw
    /\ DepthOf(last.before, last.a) = 2
    /\ parent[last.a] = last.ret
    /\ parent # last.before
    /\ \E v \in DOMAIN parent \ ChainOf(last.before, last.a) :
          parent[v] # v

\* the vertices marked in a visited array
VisitedSet(vis) ==
    {v \in Range(g.vertices) : vis[vertexIndex(g.vertices)[v]]}

\* the edges of es with exactly one end in the vertex set S
Crossing(es, S) ==
    {k \in 1..Len(es) : (es[k].u \in S) # (es[k].v \in S)}

\* the step just taken was a loop iteration that appended an edge
Accepted == last.op = "primIter" /\ Len(mst) = Len(last.mst) + 1

\* the step just taken was a loop iteration on an item of a visited vertex
Discarded ==
    /\ last.op = "primIter" /\ last.defined
    /\ last.item.vertex \in VisitedSet(last.visited)

\* C19: in primMST, at the start of every loop iteration the queue holds an
\* item for every adjacency entry that leads from a visited vertex to an
\* unvisited one; hence every edge appended to the result has the least
\* weight among the edges crossing the boundary of the visited set when it
\* is accepted; an item whose vertex is already visited is discarded and
\* changes neither the result nor the visited set.
C19_QueueCoversBoundary ==
    /\ pc = "primLoop" =>
          \A u \in VisitedSet(visited) :
             \A k \in 1..Len(g.adjList[u]) :
                g.adjList[u][k].to \notin VisitedSet(visited) =>
                   [priority |-> g.adjList[u][k].weight,
                    vertex |-> g.adjList[u][k].to,
                    parent |-> u] \in Range(heap_array)
    /\ Accepted =>
          /\ \E k \in Crossing(g.edges, VisitedSet(last.visited)) :
                Undirected(g.edges[k]) = Undirected(mst[Len(mst)])
          /\ \A k \in Crossing(g.edges, VisitedSet(last.visited)) :
                mst[Len(mst)].weight <= g.edges[k].weight
    /\ Discarded => mst = last.mst /\ visited = last.visited

\* an edge has just been accepted while a strictly heavier edge crossed the
\* boundary too, and the queue it leaves holds an item of a visited vertex
C19_Witness ==
    /\ pc = "primLoop" /\ Accepted
    /\ \E k \in Crossing(g.edges, VisitedSet(last.visited)) :
          mst[Len(mst)].weight < g.edges[k].weight
    /\ \E k \in 1..Len(heap_array) :
          heap_array[k].vertex \in VisitedSet(visited)

\* C20: throughout primMST a visited vertex never becomes unvisited and is
\* absorbed at most once: every appended edge has its u (the parent) visited
\* and its v unvisited just before the append, so at every step the result
\* is a tree that contains vertices[0], its vertex set is exactly the
\* visited set, and the number of visited vertices is the result length
\* plus one.
C20_VisitedTree ==
    /\ (pc \in {"primLoop", "done"} /\ primStatus # "threw" /\ ~primTrivial(g)) =>
          /\ g.vertices[1] \in VisitedSet(visited)
          /\ {g.vertices[1]} \cup Endpoints(mst) = VisitedSet(visited)
          /\ ReachFrom({g.vertices[1]}, mst) = VisitedSet(visited)
          /\ Cardinality(VisitedSet(visited)) = Len(mst) + 1
          /\ \A k \in 1..Len(mst) :
                /\ mst[k].v # g.vertices[1]
                /\ \A j \in 1..(k - 1) : mst[j].v # mst[k].v
    /\ last.op = "primIter" =>
          /\ VisitedSet(last.visited) \subseteq VisitedSet(visited)
          /\ Len(mst) >= Len(last.mst)
          /\ SubSeq(mst, 1, Len(last.mst)) = last.mst
    /\ Accepted =>
          /\ mst[Len(mst)].u \in VisitedSet(last.visited)
          /\ mst[Len(mst)].v \notin VisitedSet(last.visited)
          /\ VisitedSet(visited) =
                VisitedSet(last.visited) \cup {mst[Len(mst)].v}

\* the third edge has just been appended and primMST has returned with all
\* four vertices visited; the edge hangs from a vertex other than vertices[0]
C20_Witness ==
    /\ Accepted /\ Len(mst) = 3
    /\ mst[3].u # g.vertices[1]
    /\ Cardinality(VisitedSet(visited)) = 4
    /\ primStatus = "returned"

====
